---- MODULE Spec2Model ----
(***************************************************************************)
(* A model of the three MakerScape Blender add-ons                         *)
(*   ApplyMaterialToChildren.py  (AMC, Hierarchy Material Applier)         *)
(*   RandomizeChildrenSize.py    (RCS, Child Scale Randomizer)             *)
(*   RandomizeHue.py             (HUE, Hue/Attribute Assigner)             *)
(* Each add-on is a separate program working on the host's scene.  The     *)
(* variable addon says which of them the session runs; the scene is the    *)
(* host's object tree.  Objects are 1..NumObjs, 0 stands for Python's None *)
(* object reference and "None" for a missing material.  Every object owns  *)
(* its data block (no two objects share one).  Numbers (scale components,  *)
(* scale bounds, hue bounds) are integers: the model keeps multiplication  *)
(* and ordering exact and leaves floating-point rounding out.              *)
(***************************************************************************)
EXTENDS Integers, Sequences, FiniteSets, TLC

\* ----------------------------------------------------------------- bounds
NumObjs == 3
MaxSlots == 2
MaxFactor == 2     \* the scale bounds range over 0..MaxFactor
RandRes == 2       \* random() takes the values 0/RandRes .. RandRes/RandRes
MaxBases == 2      \* the base-name lists of SpecName have at most MaxBases items

Objs == 1..NumObjs
NoObj == 0
ObjRefs == {NoObj} \cup Objs
NoMat == "None"
Mats == {"MatA", "MatB"}
MatRefs == {NoMat} \cup Mats
OldMat == "MatB"
Types == {"MESH", "EMPTY", "LIGHT"}

VARIABLES
    addon,             \* which add-on this session runs: "AMC", "RCS", "HUE"
    \* --- the host's scene
    parent,            \* obj.parent, NoObj for a root
    otype,             \* obj.type
    materials,         \* obj.data.materials, the slot collection
    active_material,   \* obj.active_material
    scale,             \* obj.scale, <<x, y, z>>
    names,             \* obj.name, a sequence of characters
    color_attr,        \* whether obj.data has the color attribute "Col"
    hue_attr,          \* obj.data.attributes.get("hue_adjust")
    active_object,     \* context.view_layer.objects.active
    \* --- the running operator
    pc,                \* "idle", "run" (inside the loop of execute), "done"
    status,            \* the set execute returned: "FINISHED", "CANCELLED", "-"
    report,            \* the last self.report: [level, msg, count]
    log,               \* the names printed by the except branches
    pre_materials,     \* the slots when the invocation began
    pre_active,        \* the active materials when the invocation began
    pre_scale,         \* the scales when the invocation began
    pre_color_attr,    \* the color attributes when the invocation began
    pre_hue_attr,      \* the hue_adjust attributes when the invocation began
    \* --- ApplyMaterialToChildren
    amc_target_object, \* scene.amc_target_object
    amc_material,      \* scene.amc_material
    target,            \* local: target
    stack,             \* local of iter_hierarchy
    yielded,           \* the objects iter_hierarchy has yielded, in order
    raised,            \* the yielded objects whose processing raised
    count_supported,   \* local: count_supported
    \* --- RandomizeChildrenSize
    rcs_parent_object, \* scene.rcs_parent_object
    rcs_min_scale,     \* scene.rcs_min_scale
    rcs_max_scale,     \* scene.rcs_max_scale
    rcs_scale_mode,    \* scene.rcs_scale_mode
    draws,             \* per child of the last run: [obj, f, raised]
    \* --- RandomizeHue
    props,             \* scene.hue_assign_props
    gen,               \* local: the targets the generator has yet to yield
    rnd,               \* local: the state of random.Random(seed)
    count,             \* local: count
    written,           \* the hue_adjust values written by this run: [obj, value]
    hue_prev           \* what the invocation before this one read and wrote

sceneVars == <<parent, otype, materials, active_material, scale, names,
               color_attr, hue_attr, active_object>>
preVars == <<pre_materials, pre_active, pre_scale, pre_color_attr, pre_hue_attr>>
runVars == <<pc, status, report, log, preVars>>
amcVars == <<amc_target_object, amc_material, target, stack, yielded, raised,
             count_supported>>
rcsVars == <<rcs_parent_object, rcs_min_scale, rcs_max_scale, rcs_scale_mode,
             draws>>
hueVars == <<props, gen, rnd, count, written, hue_prev>>
vars == <<addon, sceneVars, runVars, amcVars, rcsVars, hueVars>>

\* ---------------------------------------------------------------- helpers
Range(s) == {s[i] : i \in 1..Len(s)}

Last(s) == s[Len(s)]

Front(s) == SubSeq(s, 1, Len(s) - 1)

NoReport == [level |-> "-", msg |-> "-", count |-> 0]

Report(level, msg, n) == [level |-> level, msg |-> msg, count |-> n]

\* -------------------------------------------------------------- the scene
\* The host keeps the object graph acyclic: with the objects numbered in
\* creation order along each branch, a parent precedes its children.
Forests == {p \in [Objs -> ObjRefs] : \A o \in Objs : p[o] < o}

ObjSeq == [i \in 1..NumObjs |-> i]

\* obj.children, in the order the host stores them
Children(o) == SelectSeq(ObjSeq, LAMBDA c : parent[c] = o)

\* getattr(obj, "data", None): an Empty has no data block
HasData(o) == otype[o] # "EMPTY"

\* getattr(data, "materials", None): a light's data has no slot collection
HasMaterials(o) == otype[o] = "MESH"

\* The slots a data block starts with: object o has (o - 1) slots, counted
\* modulo MaxSlots + 1, so that empty, single and multiple slot collections
\* all occur; an object without a slot collection has none.
InitSlots(o) == [i \in 1..((o - 1) % (MaxSlots + 1)) |-> OldMat]

\* Object names, as sequences of characters: "Body", "body 2", "Body.003"
\* (the host's name for a duplicate) and "Bodyworks".
Body == <<"B", "o", "d", "y">>

ObjName(o) ==
    CASE o = 1 -> Body
      [] o = 2 -> <<"b", "o", "d", "y", " ", "2">>
      [] o = 3 -> Body \o <<".", "0", "0", "3">>
      [] OTHER -> Body \o <<"w", "o", "r", "k", "s">>

\* A point-domain attribute holds one value per point of the mesh.
Points == {1, 2}

NoAttr == [data_type |-> "NONE", domain |-> "NONE", data |-> <<>>]

Attr(data_type, domain, data) ==
    [data_type |-> data_type, domain |-> domain, data |-> data]

\* The hue_adjust attribute a mesh starts with: none, one of another type,
\* or a float point attribute with values that differ from point to point.
InitHueAttr(o) ==
    CASE o % 3 = 1 -> NoAttr
      [] o % 3 = 2 -> Attr("INT", "POINT", <<7, 7>>)
      [] OTHER -> Attr("FLOAT", "POINT", <<3, 5>>)

SceneInit ==
    /\ parent \in Forests
    /\ otype \in [Objs -> Types]
    /\ materials = [o \in Objs |-> IF otype[o] = "MESH" THEN InitSlots(o) ELSE <<>>]
    /\ active_material = [o \in Objs |-> NoMat]
    /\ scale = [o \in Objs |-> <<1, 2, 3>>]
    /\ color_attr = [o \in Objs |-> otype[o] = "MESH" /\ o % 2 = 0]
    /\ hue_attr = [o \in Objs |-> IF otype[o] = "MESH" THEN InitHueAttr(o) ELSE NoAttr]
    /\ active_object \in ObjRefs

NamesInit == names = [o \in Objs |-> ObjName(o)]

\* The scene as it is when an invocation begins, kept for comparison.
TakeSnapshot ==
    /\ pre_materials' = materials
    /\ pre_active' = active_material
    /\ pre_scale' = scale
    /\ pre_color_attr' = color_attr
    /\ pre_hue_attr' = hue_attr

RunInit ==
    /\ pc = "idle"
    /\ status = "-"
    /\ report = NoReport
    /\ log = <<>>
    /\ pre_materials = materials
    /\ pre_active = active_material
    /\ pre_scale = scale
    /\ pre_color_attr = color_attr
    /\ pre_hue_attr = hue_attr

\* ------------------------------------------------ ApplyMaterialToChildren
AmcInit ==
    /\ amc_target_object = NoObj
    /\ amc_material = NoMat
    /\ target = NoObj
    /\ stack = <<>>
    /\ yielded = <<>>
    /\ raised = {}
    /\ count_supported = 0

\* The faults the host can raise inside apply_material_to_object: none, at
\* the first write to the slot collection, at the write of active_material.
Faults == {"none", "slots", "active"}

\* A traversal that pushes only the first child of each object.
StackExtendFirstChild(rest, obj) ==
    rest \o (IF Children(obj) = <<>> THEN <<>> ELSE <<Head(Children(obj))>>)

\* iter_hierarchy, line 25: the stack after obj was popped and yielded
StackExtend(rest, obj) == rest \o Children(obj)

\* An assignment that overwrites the first slot only.
AppliedSlotsFirstOnly(mats, mat) ==
    IF Len(mats) = 0 THEN <<mat>> ELSE [mats EXCEPT ![1] = mat]

\* apply_material_to_object, lines 40-44: the slot collection afterwards
AppliedSlots(mats, mat) ==
    IF Len(mats) = 0 THEN <<mat>> ELSE [i \in 1..Len(mats) |-> mat]

\* execute, lines 83-96
AMC_Execute ==
    /\ addon = "AMC"
    /\ pc = "idle"
    /\ \E tgt \in ObjRefs, mat \in MatRefs :
        LET t == IF tgt # NoObj THEN tgt ELSE active_object IN
        /\ amc_target_object' = tgt
        /\ amc_material' = mat
        /\ target' = t
        /\ TakeSnapshot
        /\ log' = <<>>
        /\ yielded' = <<>>
        /\ raised' = {}
        /\ count_supported' = 0
        /\ IF t = NoObj
           THEN /\ report' = Report("ERROR", "no target", 0)
                /\ status' = "CANCELLED"
                /\ pc' = "done"
                /\ stack' = <<>>
           ELSE IF mat = NoMat
           THEN /\ report' = Report("ERROR", "no material", 0)
                /\ status' = "CANCELLED"
                /\ pc' = "done"
                /\ stack' = <<>>
           ELSE /\ report' = NoReport
                /\ status' = "-"
                /\ pc' = "run"
                /\ stack' = <<t>>
    /\ UNCHANGED <<addon, sceneVars, rcsVars, hueVars>>

\* One iteration of the loop of execute, lines 97-106, with the body of
\* iter_hierarchy (lines 21-25) and of apply_material_to_object.
AMC_Visit ==
    /\ addon = "AMC"
    /\ pc = "run"
    /\ stack # <<>>
    /\ LET obj == Last(stack) IN
       /\ stack' = StackExtend(Front(stack), obj)
       /\ yielded' = Append(yielded, obj)
       /\ IF ~HasData(obj) \/ ~HasMaterials(obj)
          THEN \* apply returns early; after is None: not counted
               UNCHANGED <<materials, active_material, count_supported,
                           raised, log>>
          ELSE \E f \in Faults :
                /\ materials' =
                     IF f = "slots" THEN materials
                     ELSE [materials EXCEPT
                             ![obj] = AppliedSlots(materials[obj], amc_material)]
                /\ active_material' =
                     IF f = "none"
                     THEN [active_material EXCEPT ![obj] = amc_material]
                     ELSE active_material
                /\ count_supported' =
                     IF f = "none" THEN count_supported + 1 ELSE count_supported
                /\ raised' = IF f = "none" THEN raised ELSE raised \cup {obj}
                /\ log' = IF f = "none" THEN log ELSE Append(log, obj)
    /\ UNCHANGED <<addon, parent, otype, scale, names, color_attr, hue_attr,
                   active_object, pc, status, report, preVars,
                   amc_target_object, amc_material, target, rcsVars, hueVars>>

\* execute, lines 108-109: the generator is exhausted
AMC_Finish ==
    /\ addon = "AMC"
    /\ pc = "run"
    /\ stack = <<>>
    /\ report' = Report("INFO", "applied", count_supported)
    /\ status' = "FINISHED"
    /\ pc' = "done"
    /\ UNCHANGED <<addon, sceneVars, log, preVars, amcVars, rcsVars, hueVars>>

NextAMC == AMC_Execute \/ AMC_Visit \/ AMC_Finish

\* -------------------------------------------------- RandomizeChildrenSize
RcsInit ==
    /\ rcs_parent_object = NoObj
    /\ rcs_min_scale = 0
    /\ rcs_max_scale = 0
    /\ rcs_scale_mode = "MULTIPLY"
    /\ draws = <<>>

Bounds == 0..MaxFactor   \* FloatProperty(min=0.0), lines 24-37

Modes == {"MULTIPLY", "ABSOLUTE"}

\* random.uniform(a, b) is a + (b - a) * random(): the values it can return
\* lie between the two end points, whichever of them is the larger.
Uniform(a, b) == {a + ((b - a) * x) \div RandRes : x \in 0..RandRes}

\* A swap written as two assignments: both bounds end up equal.
SwapBoundsSequential(min_s, max_s) ==
    IF min_s > max_s THEN <<max_s, max_s>> ELSE <<min_s, max_s>>

\* execute, lines 69-72: <<min_s, max_s>> after the swap
SwapBounds(min_s, max_s) ==
    IF min_s > max_s THEN <<max_s, min_s>> ELSE <<min_s, max_s>>

\* A scaling that draws on the y axis only in multiplicative mode.
ScaledOneAxis(v, f, mode) ==
    IF mode = "MULTIPLY" THEN <<v[1], v[2] * f, v[3]>> ELSE <<f, f, f>>

\* execute, lines 84-87: the scale of a child after factor f
Scaled(v, f, mode) ==
    IF mode = "MULTIPLY" THEN <<v[1] * f, v[2] * f, v[3] * f>> ELSE <<f, f, f>>

NoDraw == 0 - 1

RECURSIVE RCS_LoopAbort(_, _, _, _, _, _)
\* A loop inside one try block: the first raise ends it.
RCS_LoopAbort(chs, sc, dr, min_s, max_s, mode) ==
    IF chs = <<>>
    THEN {[scale |-> sc, draws |-> dr]}
    ELSE LET ch == Head(chs) IN
         UNION ({RCS_LoopAbort(Tail(chs),
                          [sc EXCEPT ![ch] = Scaled(sc[ch], f, mode)],
                          Append(dr, [obj |-> ch, f |-> f, raised |-> FALSE]),
                          min_s, max_s, mode) : f \in Uniform(min_s, max_s)}
                \cup
                {{[scale |-> sc,
                   draws |-> Append(dr, [obj |-> ch, f |-> NoDraw, raised |-> TRUE])]}})

RECURSIVE RCS_Loop(_, _, _, _, _, _)
\* execute, lines 81-89: every way the loop over the remaining children chs
\* can go, from the scales sc and the record dr of the children done.  The
\* host may raise inside the try block; the child is then left as it was.
RCS_Loop(chs, sc, dr, min_s, max_s, mode) ==
    IF chs = <<>>
    THEN {[scale |-> sc, draws |-> dr]}
    ELSE LET ch == Head(chs) IN
         UNION ({RCS_Loop(Tail(chs),
                          [sc EXCEPT ![ch] = Scaled(sc[ch], f, mode)],
                          Append(dr, [obj |-> ch, f |-> f, raised |-> FALSE]),
                          min_s, max_s, mode) : f \in Uniform(min_s, max_s)}
                \cup
                {RCS_Loop(Tail(chs), sc,
                          Append(dr, [obj |-> ch, f |-> NoDraw, raised |-> TRUE]),
                          min_s, max_s, mode)})

\* The child objects the except branch printed
Skipped(dr) == SelectSeq(dr, LAMBDA d : d.raised)

\* An execute without the test for an empty list of children.
RCS_OutcomesNoChildTest(sc, par, min_scale, max_scale, mode) ==
    LET p == IF par # NoObj THEN par ELSE active_object
        b == SwapBounds(min_scale, max_scale)
        children == IF p = NoObj THEN <<>> ELSE Children(p)
    IN  IF p = NoObj
        THEN {[status |-> "CANCELLED", report |-> Report("ERROR", "no parent", 0),
               scale |-> sc, draws |-> <<>>]}
        ELSE {[status |-> "FINISHED",
               report |-> Report("INFO", "scaled", Len(children)),
               scale |-> r.scale, draws |-> r.draws] :
                r \in RCS_Loop(children, sc, <<>>, b[1], b[2], mode)}

\* execute, lines 61-93: every outcome of one invocation on the scene with
\* the scales sc
RCS_Outcomes(sc, par, min_scale, max_scale, mode) ==
    LET p == IF par # NoObj THEN par ELSE active_object
        b == SwapBounds(min_scale, max_scale)
        children == IF p = NoObj THEN <<>> ELSE Children(p)
    IN  IF p = NoObj
        THEN {[status |-> "CANCELLED", report |-> Report("ERROR", "no parent", 0),
               scale |-> sc, draws |-> <<>>]}
        ELSE IF children = <<>>
        THEN {[status |-> "CANCELLED", report |-> Report("WARNING", "no children", 0),
               scale |-> sc, draws |-> <<>>]}
        ELSE {[status |-> "FINISHED",
               report |-> Report("INFO", "scaled", Len(children)),
               scale |-> r.scale, draws |-> r.draws] :
                r \in RCS_Loop(children, sc, <<>>, b[1], b[2], mode)}

RCS_Execute ==
    /\ addon = "RCS"
    /\ pc = "idle"
    /\ \E par \in ObjRefs, mn \in Bounds, mx \in Bounds, mode \in Modes :
        /\ rcs_parent_object' = par
        /\ rcs_min_scale' = mn
        /\ rcs_max_scale' = mx
        /\ rcs_scale_mode' = mode
        /\ \E out \in RCS_Outcomes(scale, par, mn, mx, mode) :
            /\ scale' = out.scale
            /\ draws' = out.draws
            /\ status' = out.status
            /\ report' = out.report
            /\ log' = [i \in 1..Len(Skipped(out.draws)) |-> Skipped(out.draws)[i].obj]
    /\ pc' = "done"
    /\ TakeSnapshot
    /\ UNCHANGED <<addon, parent, otype, materials, active_material, names,
                   color_attr, hue_attr, active_object, amcVars, hueVars>>

NextRCS == RCS_Execute

\* ----------------------------------------------------------- RandomizeHue
Whitespace == {" ", "\n"}

Digits == {"0", "1", "2", "3"}

\* str.lower on the characters of the model
Lower(c) ==
    CASE c = "B" -> "b"
      [] c = "O" -> "o"
      [] c = "D" -> "d"
      [] c = "Y" -> "y"
      [] OTHER -> c

RECURSIVE LStrip(_)
LStrip(t) == IF t # <<>> /\ Head(t) \in Whitespace THEN LStrip(Tail(t)) ELSE t

RECURSIVE RStrip(_)
RStrip(t) == IF t # <<>> /\ Last(t) \in Whitespace THEN RStrip(Front(t)) ELSE t

\* it.name.strip(), line 225
Strip(t) == RStrip(LStrip(t))

\* `$` of the regular expression at position i of t (one past the last
\* character, or at a final newline)
AtEnd(t, i) == i = Len(t) + 1 \/ (i = Len(t) /\ t[i] = "\n")

\* A pattern that also takes the host's duplicate suffix, a dot and three
\* digits: ^base(?: \d+|\.\d{3})?$
PatternMatchDotSuffix(base, name) ==
    /\ Len(name) >= Len(base)
    /\ \A i \in 1..Len(base) : Lower(name[i]) = Lower(base[i])
    /\ LET i == Len(base) + 1 IN
       \/ AtEnd(name, i)
       \/ /\ i <= Len(name)
          /\ name[i] = " "
          /\ \E j \in (i + 2)..(Len(name) + 1) :
                /\ \A k \in (i + 1)..(j - 1) : name[k] \in Digits
                /\ AtEnd(name, j)
       \/ /\ i + 3 <= Len(name)
          /\ name[i] = "."
          /\ \A k \in (i + 1)..(i + 3) : name[k] \in Digits
          /\ AtEnd(name, i + 4)

\* p.match(obj.name) for p = re.compile(rf"^{base_escaped}(?: \d+)?$",
\* re.IGNORECASE), lines 228-229 and 234
PatternMatch(base, name) ==
    /\ Len(name) >= Len(base)
    /\ \A i \in 1..Len(base) : Lower(name[i]) = Lower(base[i])
    /\ LET i == Len(base) + 1 IN
       \/ AtEnd(name, i)
       \/ /\ i <= Len(name)
          /\ name[i] = " "
          /\ \E j \in (i + 2)..(Len(name) + 1) :
                /\ \A k \in (i + 1)..(j - 1) : name[k] \in Digits
                /\ AtEnd(name, j)

\* _targets_by_name, lines 223-229: the stripped, non-blank base names
Patterns(base_names) ==
    LET stripped == [i \in 1..Len(base_names) |-> Strip(base_names[i])]
    IN  SelectSeq(stripped, LAMBDA b : b # <<>>)

\* _targets_by_name, lines 231-235, over the objects objs of the scene
TargetsByName(base_names, objs) ==
    LET patterns == Patterns(base_names) IN
    SelectSeq(objs, LAMBDA o :
        /\ otype[o] = "MESH"
        /\ \E i \in 1..Len(patterns) : PatternMatch(patterns[i], names[o]))

\* _targets_children, line 242
TargetsChildren(p) == SelectSeq(Children(p), LAMBDA ch : otype[ch] = "MESH")

\* random.Random(seed) and its stream of draws are stood for by a
\* full-period congruential generator on 0..7; random() is state / 8.
\* A generator that is created once and never seeded again.
NewRandomStale(seed) == rnd

\* random.Random(props.random_seed), line 265
NewRandom(seed) == seed % 8

NextRandom(x) == (5 * x + 1) % 8

\* rnd.uniform(a, b) = a + (b - a) * random(), line 277, in eighths
UniformAt(a, b, x) == a * 8 + (b - a) * x

\* write_uniform_float_attribute, lines 79-86
WriteUniformFloatAttribute(attr, value) ==
    LET a == IF attr = NoAttr \/ attr.data_type # "FLOAT" \/ attr.domain # "POINT"
             THEN Attr("FLOAT", "POINT", [p \in Points |-> 0])
             ELSE attr
    IN  [a EXCEPT !.data = [p \in Points |-> value]]

\* An assignment with the policy of the material applier: every slot.
AssignEverySlot(mats, mat) ==
    IF Len(mats) > 0 THEN [i \in 1..Len(mats) |-> mat] ELSE <<mat>>

\* execute, lines 272-275: slot 0 holds the material
AssignSlotZero(mats, mat) ==
    IF Len(mats) > 0 THEN [mats EXCEPT ![1] = mat] ELSE <<mat>>

NoRun == [valid |-> FALSE, props |-> <<>>, targets |-> <<>>, written |-> <<>>]

HueInit ==
    /\ gen = <<>>
    /\ rnd = 0
    /\ count = 0
    /\ written = <<>>
    /\ hue_prev = NoRun

\* The hue bounds and seeds the user has typed in
HueBoundPairs == {<<0 - 1, 1>>, <<0, 0>>, <<3, 1>>, <<0, 2>>}

Seeds == {0, 3}

\* The base-name lists the user has built: none, a blank one, "Body",
\* " body " after a blank item, "Bodyworks" with "Body", "Body" with the
\* full name "Body.003" taken from an object, and "Cube".
BaseNameLists ==
    { <<>>,
      << <<" ">> >>,
      << Body >>,
      << Body, Body \o <<".", "0", "0", "3">> >>,
      << <<" ">>, <<" ", "b", "o", "d", "y", " ">> >>,
      << Body \o <<"w", "o", "r", "k", "s">>, Body >>,
      << <<"C", "u", "b", "e">> >> }

HueProps(mode, base_names, par, b, seed, mat) ==
    [mode |-> mode, base_names |-> base_names,
     base_names_index |-> IF base_names = <<>> THEN 0 ELSE Len(base_names) - 1,
     parent_object |-> par, hue_min |-> b[1], hue_max |-> b[2],
     random_seed |-> seed, target_material |-> mat]

\* What the panel lets the user set.  A mode reads only its own settings:
\* in NAME mode the parent, the active object and the tree are left at
\* their defaults, in CHILDREN mode the list of base names is.
HuePropsInit ==
    \E b \in HueBoundPairs, seed \in Seeds, mat \in {NoMat, "MatA"} :
        \/ /\ \E bl \in BaseNameLists :
                 props = HueProps("NAME", bl, NoObj, b, seed, mat)
           /\ active_object = NoObj
           /\ parent = [o \in Objs |-> NoObj]
        \/ /\ \E par \in ObjRefs :
                 /\ props = HueProps("CHILDREN", <<>>, par, b, seed, mat)
                 /\ (par # NoObj => active_object = NoObj)

\* execute, lines 244-266.  The settings are those of the panel; pressing
\* Run a second time runs the operator again on the scene the first run left.
Hue_Execute ==
    /\ addon = "HUE"
    /\ pc = "idle" \/ (pc = "done" /\ ~hue_prev.valid)
    /\ hue_prev' = IF pc = "done"
                   THEN [valid |-> TRUE, props |-> props,
                         targets |-> [i \in 1..Len(written) |-> written[i].obj],
                         written |-> [i \in 1..Len(written) |-> written[i].value]]
                   ELSE hue_prev
    /\ TakeSnapshot
    /\ log' = <<>>
    /\ count' = 0
    /\ written' = <<>>
    /\ LET par == IF props.parent_object # NoObj THEN props.parent_object
                  ELSE active_object
           Cancel(level, msg) ==
               /\ report' = Report(level, msg, 0)
               /\ status' = "CANCELLED"
               /\ pc' = "done"
               /\ UNCHANGED <<gen, rnd>>
           Start(targets) ==
               /\ report' = NoReport
               /\ status' = "-"
               /\ pc' = "run"
               /\ gen' = targets
               /\ rnd' = NewRandom(props.random_seed)
       IN  IF props.target_material = NoMat
           THEN Cancel("ERROR", "no material")
           ELSE IF props.hue_min > props.hue_max
           THEN Cancel("ERROR", "min greater than max")
           ELSE IF props.mode = "NAME"
           THEN IF Patterns(props.base_names) = <<>>
                THEN Cancel("ERROR", "no base name")
                ELSE Start(TargetsByName(props.base_names, ObjSeq))
           ELSE IF par = NoObj
                THEN Cancel("ERROR", "no parent")
                ELSE Start(TargetsChildren(par))
    /\ UNCHANGED <<addon, sceneVars, props, amcVars, rcsVars>>

\* One iteration of the loop of execute, lines 268-280.  Nothing catches
\* what the host raises here: the operator ends there, with the objects
\* done so far left as written.
Hue_Assign ==
    /\ addon = "HUE"
    /\ pc = "run"
    /\ gen # <<>>
    /\ LET obj == Head(gen)
           hue_adj == UniformAt(props.hue_min, props.hue_max, rnd)
       IN  \/ /\ color_attr' = [color_attr EXCEPT ![obj] = TRUE]
              /\ materials' = [materials EXCEPT
                     ![obj] = AssignSlotZero(materials[obj], props.target_material)]
              /\ rnd' = NextRandom(rnd)
              /\ hue_attr' = [hue_attr EXCEPT
                     ![obj] = WriteUniformFloatAttribute(hue_attr[obj], hue_adj)]
              /\ written' = Append(written, [obj |-> obj, value |-> hue_adj])
              /\ count' = count + 1
              /\ gen' = Tail(gen)
              /\ UNCHANGED <<pc, status>>
           \/ /\ status' = "EXCEPTION"
              /\ pc' = "done"
              /\ UNCHANGED <<color_attr, materials, rnd, hue_attr, written,
                             count, gen>>
    /\ UNCHANGED <<addon, parent, otype, active_material, scale, names,
                   active_object, report, log, preVars, props, hue_prev,
                   amcVars, rcsVars>>

\* execute, lines 282-284: the generator is exhausted
Hue_Finish ==
    /\ addon = "HUE"
    /\ pc = "run"
    /\ gen = <<>>
    /\ report' = Report("INFO", "assigned", count)
    /\ status' = "FINISHED"
    /\ pc' = "done"
    /\ UNCHANGED <<addon, sceneVars, log, preVars, amcVars, rcsVars, props,
                   gen, rnd, count, written, hue_prev>>

NextHue == Hue_Execute \/ Hue_Assign \/ Hue_Finish

\* --------------------------------------------------------- specifications
\* The settings of the hue assigner while another add-on runs
HuePropsDefault ==
    props = HueProps("NAME", <<>>, NoObj, <<0 - 1, 1>>, 0, NoMat)

\* A session of the material applier: any forest, any object types.
InitAMC ==
    /\ addon = "AMC" /\ SceneInit /\ RunInit /\ AmcInit /\ RcsInit /\ HueInit
    /\ NamesInit
    /\ HuePropsDefault

SpecAMC == InitAMC /\ [][NextAMC]_vars

\* A session of the scale randomizer: it reads no object type.
InitRCS ==
    /\ addon = "RCS" /\ SceneInit /\ RunInit /\ AmcInit /\ RcsInit /\ HueInit
    /\ NamesInit
    /\ HuePropsDefault
    /\ otype = [o \in Objs |-> "MESH"]

SpecRCS == InitRCS /\ [][NextRCS]_vars

\* A session of the hue assigner: meshes and empties, the user's settings.
InitHue ==
    /\ addon = "HUE" /\ SceneInit /\ RunInit /\ AmcInit /\ RcsInit /\ HueInit
    /\ NamesInit
    /\ otype \in [Objs -> {"MESH", "EMPTY"}]
    /\ HuePropsInit

SpecHue == InitHue /\ [][NextHue]_vars

\* The name matching of the hue assigner on its own: the first object has
\* any of the names below, the list holds any base names, and the targets
\* are collected as list(self._targets_by_name(context, props)).
NameStems == {Body, <<"b", "O", "d", "y">>, <<"B", "o">>}

NameSuffixes ==
    { <<>>, <<" ", "2">>, <<" ", "1", "2">>, <<" ">>, <<"2">>,
      <<".", "0", "0", "3">>, <<".", "0", "3">>, <<".", "0", "0", "0", "3">>,
      <<" ", ".", "0", "0", "3">>, <<" ", "2", " ">>, <<" ", "2", "\n">>,
      <<"\n">>, <<"w", "o", "r", "k", "s">> }

AllNames == {st \o su : st \in NameStems, su \in NameSuffixes}

BaseNames ==
    { Body, <<"b", "O", "d", "y">>, <<" ", "B", "o", "d", "y", " ">>,
      <<" ">>, <<>>, Body \o <<" ", "2">> }

BaseNameSeqs == UNION {[1..n -> BaseNames] : n \in 0..MaxBases}

InitName ==
    /\ addon = "HUE" /\ SceneInit /\ RunInit /\ AmcInit /\ RcsInit /\ HueInit
    /\ otype \in [Objs -> {"MESH", "EMPTY"}]
    /\ parent = [o \in Objs |-> NoObj]
    /\ active_object = NoObj
    /\ \E n \in AllNames :
          /\ \A o \in Objs \ {1} : n # ObjName(o)
          /\ names = [o \in Objs |-> IF o = 1 THEN n ELSE ObjName(o)]
    /\ \E bl \in BaseNameSeqs :
          props = HueProps("NAME", bl, NoObj, <<0 - 1, 1>>, 0, "MatA")

\* _targets_by_name run to its end, lines 221-235
Hue_TargetsByName ==
    /\ addon = "HUE"
    /\ pc = "idle"
    /\ gen' = TargetsByName(props.base_names, ObjSeq)
    /\ pc' = "done"
    /\ UNCHANGED <<addon, sceneVars, status, report, log, preVars, amcVars,
                   rcsVars, props, rnd, count, written, hue_prev>>

NextName == Hue_TargetsByName

SpecName == InitName /\ [][NextName]_vars

\* The list of base names of the hue assigner panel, built by its buttons.
\* The length the list is allowed to reach
MaxList == 3

\* LIST_OT_add_base.execute, line 163: the name a new item is given
BodyInstance ==
    <<"b", "o", "d", "y", " ", "i", "n", "s", "t", "a", "n", "c", "e">>

\* props.base_names.remove(index), line 174, for an index counted from 0
RemoveAt(s, index) == SubSeq(s, 1, index) \o SubSeq(s, index + 2, Len(s))

\* An index the removal leaves as it was.
ClampIndexStale(index, n) == index

\* min(props.base_names_index, max(0, len(props.base_names)-1)), line 175,
\* for a list that now has n items
ClampIndex(index, n) ==
    LET top == IF n - 1 > 0 THEN n - 1 ELSE 0
    IN  IF index < top THEN index ELSE top

\* What no button of the list touches
ListFrame ==
    UNCHANGED <<addon, sceneVars, pc, log, preVars, amcVars, rcsVars,
                gen, rnd, count, written, hue_prev>>

\* LIST_OT_add_base.execute, lines 160-166
LIST_OT_add_base ==
    /\ addon = "HUE"
    /\ pc = "idle"
    /\ Len(props.base_names) < MaxList
    /\ LET base_names == Append(props.base_names, BodyInstance) IN
       props' = [props EXCEPT !.base_names = base_names,
                              !.base_names_index = Len(base_names) - 1]
    /\ status' = "FINISHED"
    /\ report' = NoReport
    /\ ListFrame

\* LIST_OT_remove_base.execute, lines 171-177
LIST_OT_remove_base ==
    /\ addon = "HUE"
    /\ pc = "idle"
    /\ IF /\ props.base_names # <<>>
          /\ 0 <= props.base_names_index
          /\ props.base_names_index < Len(props.base_names)
       THEN LET base_names == RemoveAt(props.base_names, props.base_names_index)
            IN  props' = [props EXCEPT
                            !.base_names = base_names,
                            !.base_names_index =
                                ClampIndex(props.base_names_index, Len(base_names))]
       ELSE UNCHANGED props
    /\ status' = "FINISHED"
    /\ report' = NoReport
    /\ ListFrame

\* LIST_OT_add_active_object_name.execute, lines 182-192
LIST_OT_add_active_object_name ==
    /\ addon = "HUE"
    /\ pc = "idle"
    /\ \/ /\ active_object = NoObj
          /\ report' = Report("WARNING", "no active object", 0)
          /\ status' = "CANCELLED"
          /\ UNCHANGED props
       \/ /\ active_object # NoObj
          /\ Len(props.base_names) < MaxList
          /\ LET base_names == Append(props.base_names, names[active_object]) IN
             props' = [props EXCEPT !.base_names = base_names,
                                    !.base_names_index = Len(base_names) - 1]
          /\ status' = "FINISHED"
          /\ report' = NoReport
    /\ ListFrame

\* draw, line 318: the list widget writes the index of the row the user
\* clicks into base_names_index
UI_UL_base_names_select ==
    /\ addon = "HUE"
    /\ pc = "idle"
    /\ \E row \in 0..(Len(props.base_names) - 1) :
          props' = [props EXCEPT !.base_names_index = row]
    /\ UNCHANGED <<status, report>>
    /\ ListFrame

\* A session at the list: the registered defaults, any active object.
InitList ==
    /\ addon = "HUE" /\ SceneInit /\ RunInit /\ AmcInit /\ RcsInit /\ HueInit
    /\ NamesInit
    /\ otype \in [Objs -> {"MESH", "EMPTY"}]
    /\ parent = [o \in Objs |-> NoObj]
    /\ HuePropsDefault

NextList ==
    \/ LIST_OT_add_base
    \/ LIST_OT_remove_base
    \/ LIST_OT_add_active_object_name
    \/ UI_UL_base_names_select

SpecList == InitList /\ [][NextList]_vars

\* Any of the three add-ons
Init == InitAMC \/ InitRCS \/ InitHue

Next == NextAMC \/ NextRCS \/ NextHue

Spec == Init /\ [][Next]_vars

\* ------------------------------------------------------------ properties
RECURSIVE IsDescendant(_, _)
\* d is a transitive child of r, by the parent links
IsDescendant(d, r) ==
    /\ parent[d] # NoObj
    /\ (parent[d] = r \/ IsDescendant(parent[d], r))

Descendants(r) == {d \in Objs : IsDescendant(d, r)}

Subtree(r) == {r} \cup Descendants(r)

NoDuplicates(s) == \A i, j \in 1..Len(s) : s[i] = s[j] => i = j

\* C1: iter_hierarchy(R) yields R first, then every transitive descendant of
\* R, each exactly once and nothing else, so 1 + |descendants| objects in
\* all; while it runs nothing is yielded or stacked twice, and it ends with
\* the stack empty.
C1_TraversalExactlyOnce ==
    /\ (addon = "AMC" /\ pc = "run") =>
          /\ NoDuplicates(yielded \o stack)
          /\ Range(yielded \o stack) \subseteq Subtree(target)
          /\ (yielded # <<>> => yielded[1] = target)
    /\ (addon = "AMC" /\ status = "FINISHED") =>
          /\ stack = <<>>
          /\ NoDuplicates(yielded)
          /\ Range(yielded) = Subtree(target)
          /\ Len(yielded) = 1 + Cardinality(Descendants(target))
          /\ yielded[1] = target

\* A finished traversal from a root with a child and a grandchild.
C1_Witness ==
    /\ addon = "AMC" /\ status = "FINISHED"
    /\ Len(yielded) >= 3
    /\ \E d \in Descendants(target) : parent[d] # target

SlotsAllEqual(m, n, mat) == Len(m) = n /\ \A i \in 1..n : m[i] = mat

\* C2: a yielded object whose data block has a slot collection and whose
\* processing did not raise ends with one slot equal to M if it had none,
\* else with as many slots as before, all equal to M; its active material
\* is M and it is counted.  An object with no data block or no slot
\* collection is unchanged and not counted.
C2_ApplyMaterial ==
    (addon = "AMC" /\ pc \in {"run", "done"} /\ status # "CANCELLED") =>
      /\ \A o \in Range(yielded) :
            IF HasData(o) /\ HasMaterials(o)
            THEN o \notin raised =>
                   /\ IF Len(pre_materials[o]) = 0
                      THEN SlotsAllEqual(materials[o], 1, amc_material)
                      ELSE SlotsAllEqual(materials[o], Len(pre_materials[o]),
                                         amc_material)
                   /\ active_material[o] = amc_material
            ELSE /\ materials[o] = pre_materials[o]
                 /\ active_material[o] = pre_active[o]
                 /\ o \notin raised
      /\ count_supported =
           Cardinality({o \in Range(yielded) :
                          HasData(o) /\ HasMaterials(o) /\ o \notin raised})
      /\ (status = "FINISHED" => report.count = count_supported)

\* A finished run that applied MatA to an object with no slot, to one with
\* two slots, and met an object without slot collection.
C2_Witness ==
    /\ addon = "AMC" /\ status = "FINISHED" /\ amc_material = "MatA"
    /\ \E o \in Range(yielded) \ raised :
          HasMaterials(o) /\ Len(pre_materials[o]) = 0
    /\ \E o \in Range(yielded) \ raised :
          HasMaterials(o) /\ Len(pre_materials[o]) >= 2
    /\ \E o \in Range(yielded) : ~HasMaterials(o)

SceneUnchanged ==
    /\ materials = pre_materials
    /\ active_material = pre_active
    /\ scale = pre_scale
    /\ color_attr = pre_color_attr
    /\ hue_attr = pre_hue_attr

\* No item of the list has a character that is not whitespace.
AllBlank(base_names) ==
    \A i \in 1..Len(base_names) :
        \A k \in 1..Len(base_names[i]) : base_names[i][k] \in Whitespace

HueParent == IF props.parent_object # NoObj THEN props.parent_object
             ELSE active_object

RcsParent == IF rcs_parent_object # NoObj THEN rcs_parent_object
             ELSE active_object

DirectChildren(p) == {o \in Objs : parent[o] = p}

\* A whole-operation precondition of the hue assigner fails.
HuePreconditionFails ==
    \/ props.target_material = NoMat
    \/ props.hue_min > props.hue_max
    \/ (props.mode = "NAME" /\ AllBlank(props.base_names))
    \/ (props.mode = "CHILDREN" /\ props.parent_object = NoObj
                                /\ active_object = NoObj)

\* C3: an invocation of the hue assigner with no material, with hue_min >
\* hue_max, in NAME mode without a non-blank base name or in CHILDREN mode
\* without a parent reports an error and is cancelled; one of the scale
\* randomizer without a parent reports an error, one whose parent has no
\* child a warning, and both are cancelled.  The scene is then as it was
\* when the invocation began.
C3_PreconditionFailuresAbort ==
    /\ (addon = "HUE" /\ pc \in {"run", "done"} /\ HuePreconditionFails) =>
          /\ status = "CANCELLED"
          /\ report.level = "ERROR"
          /\ SceneUnchanged
    /\ (addon = "RCS" /\ pc = "done" /\ RcsParent = NoObj) =>
          /\ status = "CANCELLED"
          /\ report.level = "ERROR"
          /\ SceneUnchanged
    /\ (addon = "RCS" /\ pc = "done" /\ RcsParent # NoObj
                      /\ DirectChildren(RcsParent) = {}) =>
          /\ status = "CANCELLED"
          /\ report.level = "WARNING"
          /\ SceneUnchanged

\* The hue assigner was run with bounds (3, 1) and a material: cancelled.
C3_Witness ==
    /\ addon = "HUE" /\ pc = "done" /\ status = "CANCELLED"
    /\ props.target_material # NoMat
    /\ props.hue_min = 3 /\ props.hue_max = 1
    /\ \E o \in Objs : otype[o] = "MESH"

MinOf(a, b) == IF a <= b THEN a ELSE b

\* C4: when an invocation of the hue assigner has the seed, the bounds and
\* the first targets of the invocation before it, the values it writes to
\* those targets are the values written before, one by one; and each value
\* written is the value the target's attribute holds at every point.
C4_HueDeterminism ==
    (addon = "HUE" /\ pc \in {"run", "done"} /\ hue_prev.valid) =>
      LET n == MinOf(Len(written), Len(hue_prev.written)) IN
      /\ (/\ hue_prev.props.random_seed = props.random_seed
          /\ hue_prev.props.hue_min = props.hue_min
          /\ hue_prev.props.hue_max = props.hue_max
          /\ \A i \in 1..n : hue_prev.targets[i] = written[i].obj)
         => \A i \in 1..n : hue_prev.written[i] = written[i].value
      /\ \A i \in 1..Len(written) :
            hue_attr[written[i].obj] =
              Attr("FLOAT", "POINT", [p \in Points |-> written[i].value])

\* Two finished runs over the same two or more targets with distinct draws.
C4_Witness ==
    /\ addon = "HUE" /\ pc = "done" /\ status = "FINISHED" /\ hue_prev.valid
    /\ Len(written) >= 2
    /\ Len(hue_prev.written) = Len(written)
    /\ written[1].value # written[2].value

\* C6: a finished run of the scale randomizer has drawn, for every direct
\* child of the parent, one factor f between the smaller and the larger of
\* the two bounds; a child whose processing did not raise has the scale
\* (x*f, y*f, z*f) in multiplicative mode and (f, f, f) in absolute mode;
\* every object that is no direct child keeps its scale.
C6_ChildScaleResult ==
    (addon = "RCS" /\ status = "FINISHED") =>
      LET lo == MinOf(rcs_min_scale, rcs_max_scale)
          hi == IF rcs_min_scale <= rcs_max_scale THEN rcs_max_scale
                ELSE rcs_min_scale
      IN
      /\ Len(draws) = Cardinality(DirectChildren(RcsParent))
      /\ {draws[i].obj : i \in 1..Len(draws)} = DirectChildren(RcsParent)
      /\ \A i \in 1..Len(draws) :
            LET ch == draws[i].obj
                f == draws[i].f
            IN  ~draws[i].raised =>
                  /\ lo <= f /\ f <= hi
                  /\ scale[ch] =
                       IF rcs_scale_mode = "MULTIPLY"
                       THEN <<pre_scale[ch][1] * f, pre_scale[ch][2] * f,
                              pre_scale[ch][3] * f>>
                       ELSE <<f, f, f>>
      /\ \A o \in Objs \ DirectChildren(RcsParent) : scale[o] = pre_scale[o]

\* A multiplicative run with bounds (2, 2) over a child that has a child.
C6_Witness ==
    /\ addon = "RCS" /\ status = "FINISHED" /\ rcs_scale_mode = "MULTIPLY"
    /\ rcs_min_scale = 2 /\ rcs_max_scale = 2
    /\ \A i \in 1..Len(draws) : ~draws[i].raised
    /\ \E c \in DirectChildren(RcsParent) : DirectChildren(c) # {}

\* C7: on every scene an invocation can start from, the scale randomizer
\* has the same outcomes (status, report, scales) for the bounds (a, b) as
\* for (b, a), whatever the parent and the mode; an invocation that was
\* made has the outcomes of the invocation with its two bounds exchanged,
\* its own outcome is one of them, and it is cancelled only for want of a
\* parent or of children.
C7_AutoSwap ==
    addon = "RCS" =>
      /\ pc = "idle" =>
            \A par \in ObjRefs, a \in Bounds, b \in Bounds, mode \in Modes :
               a > b => RCS_Outcomes(scale, par, a, b, mode)
                          = RCS_Outcomes(scale, par, b, a, mode)
      /\ pc = "done" =>
            LET exchanged == RCS_Outcomes(pre_scale, rcs_parent_object,
                                          rcs_max_scale, rcs_min_scale,
                                          rcs_scale_mode)
            IN
            /\ RCS_Outcomes(pre_scale, rcs_parent_object, rcs_min_scale,
                            rcs_max_scale, rcs_scale_mode) = exchanged
            /\ [status |-> status, report |-> report, scale |-> scale,
                draws |-> draws] \in exchanged
            /\ (RcsParent # NoObj /\ DirectChildren(RcsParent) # {})
                 => status = "FINISHED"

\* A run with bounds (2, 0) that drew the factor 1.
C7_Witness ==
    /\ addon = "RCS" /\ status = "FINISHED"
    /\ rcs_min_scale = 2 /\ rcs_max_scale = 0
    /\ \E i \in 1..Len(draws) : draws[i].f = 1

\* C8: when the processing of an object raises, the object is logged and
\* the run goes on.  The material applier still yields the whole subtree,
\* gives every other object with a slot collection the material in all its
\* slots and finishes; the scale randomizer still draws for every child,
\* scales every other child by its factor and finishes.
C8_PerElementFaultTolerance ==
    /\ (addon = "AMC" /\ pc = "done" /\ target # NoObj /\ amc_material # NoMat) =>
          /\ status = "FINISHED"
          /\ Range(yielded) = Subtree(target)
          /\ Range(log) = raised
          /\ \A o \in Subtree(target) \ raised :
                IF otype[o] = "MESH"
                THEN /\ \A i \in 1..Len(materials[o]) :
                          materials[o][i] = amc_material
                     /\ Len(materials[o]) =
                          (IF pre_materials[o] = <<>> THEN 1
                           ELSE Len(pre_materials[o]))
                     /\ active_material[o] = amc_material
                ELSE materials[o] = pre_materials[o]
    /\ (addon = "RCS" /\ pc = "done" /\ RcsParent # NoObj
                      /\ DirectChildren(RcsParent) # {}) =>
          /\ status = "FINISHED"
          /\ {draws[i].obj : i \in 1..Len(draws)} = DirectChildren(RcsParent)
          /\ Range(log) = {draws[i].obj : i \in {k \in 1..Len(draws) : draws[k].raised}}
          /\ \A i \in 1..Len(draws) :
                IF draws[i].raised
                THEN scale[draws[i].obj] = pre_scale[draws[i].obj]
                ELSE scale[draws[i].obj] \in
                       {IF rcs_scale_mode = "MULTIPLY"
                        THEN <<pre_scale[draws[i].obj][1] * f,
                               pre_scale[draws[i].obj][2] * f,
                               pre_scale[draws[i].obj][3] * f>>
                        ELSE <<f, f, f>> :
                          f \in MinOf(rcs_min_scale, rcs_max_scale)..
                                (rcs_min_scale + rcs_max_scale
                                   - MinOf(rcs_min_scale, rcs_max_scale))}

\* A finished scale run whose first child raised and whose second child
\* was scaled.
C8_Witness ==
    /\ addon = "RCS" /\ status = "FINISHED"
    /\ \E i, j \in 1..Len(draws) :
          /\ i < j
          /\ draws[i].raised
          /\ ~draws[j].raised
          /\ scale[draws[j].obj] # pre_scale[draws[j].obj]

\* The targets the hue assigner selects, stated over the scene
HueSelectionEmpty ==
    IF props.mode = "NAME"
    THEN ~\E o \in Objs :
            /\ otype[o] = "MESH"
            /\ \E i \in 1..Len(props.base_names) :
                  /\ Strip(props.base_names[i]) # <<>>
                  /\ PatternMatch(Strip(props.base_names[i]), names[o])
    ELSE ~\E o \in DirectChildren(HueParent) : otype[o] = "MESH"

\* C9: an invocation of the hue assigner whose preconditions hold and whose
\* selection is empty is cancelled with a warning and changes nothing.
C9_EmptySelectionWarns ==
    (addon = "HUE" /\ pc = "done" /\ ~HuePreconditionFails /\ HueSelectionEmpty) =>
      /\ status = "CANCELLED"
      /\ report.level = "WARNING"
      /\ SceneUnchanged

\* C10: the count a finished invocation reports does not exceed the number
\* of elements whose processing did not raise.
C10_CountExcludesSkipped ==
    /\ (addon = "AMC" /\ status = "FINISHED") =>
          report.count <= Cardinality(Range(yielded) \ raised)
    /\ (addon = "RCS" /\ status = "FINISHED") =>
          report.count <= Cardinality({i \in 1..Len(draws) : ~draws[i].raised})

LowerSeq(t) == [i \in 1..Len(t) |-> Lower(t[i])]

Reverse(t) == [i \in 1..Len(t) |-> t[Len(t) + 1 - i]]

\* A name cut in three: the first n characters, the middle, and the last
\* m characters.
Cut(name, n, m) ==
    [head |-> SubSeq(name, 1, n),
     mid |-> SubSeq(name, n + 1, Len(name) - m),
     tail |-> SubSeq(name, Len(name) - m + 1, Len(name))]

IsIntegerSuffix(t) ==
    Len(t) >= 2 /\ t[1] = " " /\ Tail(t) \in [1..(Len(t) - 1) -> Digits]

IsDotSuffix(t) == Len(t) = 4 /\ t[1] = "." /\ Tail(t) \in [1..3 -> Digits]

\* The names base name B (stripped) selects: B itself, or B, a space and
\* one or more digits; in both cases a final newline may follow, and
\* letters compare without case.
AcceptedName(B, name) ==
    \E nl \in {<<>>, <<"\n">>} :
        /\ Len(name) >= Len(B) + Len(nl)
        /\ LET c == Cut(name, Len(B), Len(nl)) IN
           /\ LowerSeq(c.head) = LowerSeq(B)
           /\ c.tail = nl
           /\ (c.mid = <<>> \/ IsIntegerSuffix(c.mid))

\* The names base name B selects according to the duplicate-naming reading:
\* B itself, B, a space and digits, or B, a dot and three digits.
AcceptedNameWithDot(B, name) ==
    /\ Len(name) >= Len(B)
    /\ LET c == Cut(name, Len(B), 0) IN
       /\ LowerSeq(c.head) = LowerSeq(B)
       /\ (c.mid = <<>> \/ IsIntegerSuffix(c.mid) \/ IsDotSuffix(c.mid))

NonBlank(b) == \E k \in 1..Len(b) : b[k] \notin Whitespace

Ascending(t) == \A i, j \in 1..Len(t) : i < j => t[i] < t[j]

\* C5 as amended: the targets are, in scene order, the mesh objects whose
\* name is selected by at least one non-blank base name of the list, taken
\* without its surrounding whitespace: the name is the base name, or the
\* base name, a space and digits (a final newline aside), without regard
\* to case.  A dot suffix is not selected.  The order of the list does not
\* matter.
C5_NameTargets ==
    (pc = "done") =>
      /\ Ascending(gen)
      /\ Range(gen) =
           {o \in Objs :
              /\ otype[o] = "MESH"
              /\ \E b \in Range(props.base_names) :
                    NonBlank(b) /\ AcceptedName(Strip(b), names[o])}
      /\ gen = TargetsByName(Reverse(props.base_names), ObjSeq)

\* "Body" was a base name: the meshes "Body" and "body 2" are targets,
\* the mesh "Body.003" is not.
C5_Witness ==
    /\ pc = "done"
    /\ Body \in Range(props.base_names)
    /\ Len(props.base_names) = 1
    /\ \A o \in Objs : otype[o] = "MESH"
    /\ names[1] = Body
    /\ {1, 2} \subseteq Range(gen)
    /\ 3 \notin Range(gen)

\* C5 as claimed: the targets are the mesh objects whose name is a base
\* name, or a base name with a space and an integer, or a base name with a
\* dot and three digits.
C5_NameTargetsWithDotSuffix ==
    (pc = "done") =>
      Range(gen) =
        {o \in Objs :
           /\ otype[o] = "MESH"
           /\ \E b \in Range(props.base_names) :
                 NonBlank(b) /\ AcceptedNameWithDot(Strip(b), names[o])}

\* C11: every target the hue assigner has processed in this run has, if
\* its data block had no slot, exactly one slot holding the material; else
\* it has as many slots as before, the first holds the material and every
\* later slot holds what it held.  No other object's slots differ.
C11_HueSlotPolicy ==
    (addon = "HUE" /\ pc \in {"run", "done"}) =>
      LET processed == {written[i].obj : i \in 1..Len(written)} IN
      /\ \A o \in processed :
            IF Len(pre_materials[o]) = 0
            THEN materials[o] = <<props.target_material>>
            ELSE /\ Len(materials[o]) = Len(pre_materials[o])
                 /\ materials[o][1] = props.target_material
                 /\ \A k \in 2..Len(materials[o]) :
                       materials[o][k] = pre_materials[o][k]
      /\ \A o \in Objs \ processed : materials[o] = pre_materials[o]

\* A finished run that processed a mesh without slots and a mesh with two
\* slots whose second slot still holds another material.
C11_Witness ==
    /\ addon = "HUE" /\ status = "FINISHED"
    /\ \E i \in 1..Len(written) : Len(pre_materials[written[i].obj]) = 0
    /\ \E i \in 1..Len(written) :
          /\ Len(pre_materials[written[i].obj]) >= 2
          /\ materials[written[i].obj][2] # props.target_material

\* The selected index is 0 on an empty list and an index of the list else.
IndexInRange ==
    IF props.base_names = <<>>
    THEN props.base_names_index = 0
    ELSE /\ 0 <= props.base_names_index
         /\ props.base_names_index < Len(props.base_names)

\* What the claim says of one step of each button
ListStepEffects ==
    LET old == props.base_names
        new == props'.base_names
        index == props.base_names_index
    IN  /\ (LIST_OT_add_base
             \/ (LIST_OT_add_active_object_name /\ active_object # NoObj))
            => /\ Len(new) = Len(old) + 1
               /\ SubSeq(new, 1, Len(old)) = old
               /\ props'.base_names_index = Len(new) - 1
        /\ (LIST_OT_remove_base /\ old # <<>>)
            => /\ Len(new) = Len(old) - 1
               /\ \A k \in 1..Len(new) :
                     new[k] = IF k <= index THEN old[k] ELSE old[k + 1]
        /\ ((LIST_OT_remove_base /\ old = <<>>)
             \/ (LIST_OT_add_active_object_name /\ active_object = NoObj))
            => UNCHANGED <<props, sceneVars>>

\* C12: from the empty list with index 0, under any sequence of Add Base,
\* From Active and Remove Base (and of row selections), base_names_index
\* is 0 while the list is empty and an index of the list otherwise; an add
\* appends one item and selects it, a removal from a non-empty list removes
\* the item at the index, and a removal from the empty list or From Active
\* without an active object leaves the list and the index as they were.
C12_BaseNameIndex == []IndexInRange /\ [][ListStepEffects]_vars

\* Both add buttons have acted, a row other than the last is selected, and
\* the last button pressed finished.
C12_Witness ==
    /\ addon = "HUE" /\ pc = "idle" /\ status = "FINISHED"
    /\ active_object # NoObj
    /\ Len(props.base_names) = MaxList
    /\ BodyInstance \in Range(props.base_names)
    /\ names[active_object] \in Range(props.base_names)
    /\ props.base_names_index = 0

====
